---- MODULE Spec2Model ----
(***************************************************************************)
(* The category-filter operation GET /api/emails/filter of the MailMate    *)
(* server (src/unnamed/part_000, lines 292-398) together with the request  *)
(* timeout middleware (lines 68-82), and the requests for the smart-filter *)
(* and the insights of one account (lines 522-537 and 612-670).            *)
(*                                                                         *)
(* The handler is an async function: it runs synchronously from one await  *)
(* to the next, so each action below is the handler's code from the        *)
(* resumption of one awaited call up to the next await (or to the end of   *)
(* the handler).  The outcome of the awaited call (a value, a throw) is    *)
(* the action's input.  The timer callback and the response's 'finish'     *)
(* event are the other two callbacks of a request.                         *)
(***************************************************************************)
EXTENDS Integers, Sequences, FiniteSets, TLC

\* ------------------------------------------------------------ bounds
MaxAccounts == 2   \* accounts a user has linked
MaxFetched  == 2   \* messages the general tasks' list calls show in a request
MaxListed   == 3   \* summaries the financial list calls show in a request
MaxSmartPool == 2  \* messages the smart-filter list call returns

\* ------------------------------------------------- program constants
DefaultMaxResults == 20    \* const { type, maxResults = 20 } = req.query
PoolFloor         == 100   \* Math.max(requestedMax, 100)
CategorizedMax    == 200   \* getCategorizedEmails(tokens, 200)
DefaultPriority   == 5     \* pr.result.priority_score || 5
UrgentThreshold   == 8     \* priority >= 8

\* ------------------------------------------------------- JS numbers
\* A JS number that is an integer of at most 9 decimal digits is <<n>>; a
\* larger one is <<sgn, digits>>, its sign (1 or -1) and the decimal digits
\* of its magnitude; Infinity and -Infinity are <<sgn, << >>, "Infinity">>;
\* NaN is the empty tuple.
NaN == << >>
Num(n) == << n >>
IsNaN(x) == x = NaN

\* a < b, for two naturals given by their digits (no leading zero).
Less(a, b) ==
    \/ Len(a) < Len(b)
    \/ /\ Len(a) = Len(b)
       /\ \E i \in 1..Len(a) : a[i] < b[i] /\ \A j \in 1..(i - 1) : a[j] = b[j]

\* a >= b on JS numbers other than NaN.
Geq(a, b) ==
    LET MagLess(x, y) ==
            IF Len(x) = 3 THEN FALSE
            ELSE IF Len(y) = 3 THEN TRUE
            ELSE Less(x[2], y[2])
    IN  IF Len(a) = 1 /\ Len(b) = 1 THEN a[1] >= b[1]
        ELSE IF Len(b) = 1 THEN a[1] = 1
        ELSE IF Len(a) = 1 THEN b[1] = 0 - 1
        ELSE IF a[1] # b[1] THEN a[1] = 1
        ELSE IF a[1] = 1 THEN ~MagLess(a, b)
        ELSE ~MagLess(b, a)

\* Math.max(a, b): NaN when either argument is NaN.
MathMax(a, b) ==
    IF IsNaN(a) \/ IsNaN(b) THEN NaN
    ELSE IF Geq(a, b) THEN a ELSE b

\* a - b on two time values (integers of the first form, or NaN).
Minus(a, b) == IF IsNaN(a) \/ IsNaN(b) THEN NaN ELSE Num(a[1] - b[1])

\* ---------------------------------------------------------- parseInt
\* A query string value is a sequence of characters: a character is a
\* one-character string, or "U+XXXX" for one that has no printable form.
DigitChars == <<"0", "1", "2", "3", "4", "5", "6", "7", "8", "9">>

\* The value of a character as a digit (the letters a-f in both cases); 36
\* for a character that is a digit in neither radix 10 nor radix 16.
DigitVal(c) ==
    LET HexLetters == <<{"a", "A"}, {"b", "B"}, {"c", "C"}, {"d", "D"},
                        {"e", "E"}, {"f", "F"}>>
    IN  IF \E d \in DOMAIN DigitChars : DigitChars[d] = c
        THEN (CHOOSE d \in DOMAIN DigitChars : DigitChars[d] = c) - 1
        ELSE IF \E d \in DOMAIN HexLetters : c \in HexLetters[d]
        THEN 9 + (CHOOSE d \in DOMAIN HexLetters : c \in HexLetters[d])
        ELSE 36

\* The longest run of digits of the radix from position i: their values.
ParseDigits(s, i, radix) ==
    LET end == CHOOSE j \in i..(Len(s) + 1) :
                   /\ j > Len(s) \/ DigitVal(s[j]) >= radix
                   /\ \A k \in i..(j - 1) : DigitVal(s[k]) < radix
    IN  SubSeq([k \in 1..(end - 1) |-> DigitVal(s[k])], i, end - 1)

\* A natural given by its digits in an even radix, halved (rounded down).
Halve(d, radix) ==
    SubSeq([i \in 1..Len(d) |->
                ((IF i = 1 THEN 0 ELSE d[i - 1] % 2) * radix + d[i]) \div 2],
           IF d[1] = 1 THEN 2 ELSE 1, Len(d))

\* The natural st.digits is halved until it is below limit, n times at
\* most (the halvings are made by halves of n, each on the result of the one
\* before): e counts the halvings, round is the bit the last one dropped,
\* sticky tells whether one before it dropped a 1.
RECURSIVE HalveSteps(_, _, _, _)
HalveSteps(st, n, radix, limit) ==
    IF n = 0 \/ Less(st.digits, limit) THEN st
    ELSE IF n = 1
    THEN [digits |-> Halve(st.digits, radix), e |-> st.e + 1,
          round |-> st.digits[Len(st.digits)] % 2 = 1,
          sticky |-> st.sticky \/ st.round]
    ELSE CHOOSE r \in {HalveSteps(x, n - (n \div 2), radix, limit) :
                        x \in {HalveSteps(st, n \div 2, radix, limit)}} : TRUE

\* d * k + c, for a natural d given by its digits in the radix.
RECURSIVE MulAdd(_, _, _, _)
MulAdd(d, k, c, radix) ==
    IF d = << >>
    THEN IF c = 0 THEN << >>
         ELSE Append(MulAdd(d, k, c \div radix, radix), c % radix)
    ELSE Append(MulAdd(SubSeq(d, 1, Len(d) - 1), k,
                       (d[Len(d)] * k + c) \div radix, radix),
                (d[Len(d)] * k + c) % radix)

\* A natural given by its decimal digits, doubled.
Double(d) ==
    (IF d # << >> /\ d[1] >= 5 THEN <<1>> ELSE << >>)
    \o SubSeq([i \in 1..Len(d) |->
                   (2 * d[i] + (IF i < Len(d) /\ d[i + 1] >= 5 THEN 1 ELSE 0))
                   % 10],
              1, Len(d))
\* d doubled n times (by halves of n).
RECURSIVE DoubleTimes(_, _)
DoubleTimes(d, n) ==
    IF n = 0 THEN d
    ELSE IF n = 1 THEN Double(d)
    ELSE CHOOSE r \in {DoubleTimes(x, n - (n \div 2)) :
                        x \in {DoubleTimes(d, n \div 2)}} : TRUE

\* The Number value (a double) for the integer of sign sgn whose magnitude
\* has the digits d in the radix: the integer itself below 2^53 (limit);
\* else it is m * 2^e, with m the 53 leading bits of the magnitude, plus one
\* when the bits dropped are more than half a unit of m, or are half a unit
\* and m is odd; from 2^1024 on it is Infinity.
ToDouble(sgn, d, radix) ==
    LET limit == IF radix = 10
                 THEN <<9, 0, 0, 7, 1, 9, 9, 2, 5, 4, 7, 4, 0, 9, 9, 2>>
                 ELSE <<2, 0, 0, 0, 0, 0, 0, 0, 0, 0, 0, 0, 0, 0>>
        st    == HalveSteps([digits |-> d, e |-> 0, round |-> FALSE,
                             sticky |-> FALSE], 4 * Len(d), radix, limit)
        up    == st.round /\ (st.sticky \/ st.digits[Len(st.digits)] % 2 = 1)
        m     == IF up THEN MulAdd(st.digits, 1, 1, radix) ELSE st.digits
        RECURSIVE ToDecimal(_)
        ToDecimal(x) ==
            IF x = << >> THEN << >>
            ELSE MulAdd(ToDecimal(SubSeq(x, 1, Len(x) - 1)), radix, x[Len(x)], 10)
        dec   == DoubleTimes(IF radix = 10 THEN m ELSE ToDecimal(m), st.e)
        RECURSIVE IntOf(_)
        IntOf(x) ==
            IF x = << >> THEN 0
            ELSE IntOf(SubSeq(x, 1, Len(x) - 1)) * 10 + x[Len(x)]
    IN  IF st.e + 53 > 1024 \/ (st.e + 53 = 1024 /\ m = limit)
        THEN <<sgn, << >>, "Infinity">>
        ELSE IF Len(dec) <= 9 THEN Num(sgn * IntOf(dec))
        ELSE <<sgn, dec>>

\* parseInt(s) without a radix: leading white space and line terminators
\* (StrWhiteSpaceChar: tab, line feed, vertical tab, form feed, carriage
\* return, space, no-break space, the space separators, line and paragraph
\* separator, U+FEFF), an optional sign, then either the prefix 0x or 0X and
\* the longest run of hexadecimal digits, or the longest run of decimal
\* digits; NaN when no digit follows.
RECURSIVE SkipSpaces(_, _)
SkipSpaces(s, i) ==
    IF i <= Len(s)
       /\ s[i] \in {" ", "\t", "\n", "\f", "\r", "U+000B", "U+00A0", "U+1680",
                    "U+2000", "U+2001", "U+2002", "U+2003", "U+2004", "U+2005",
                    "U+2006", "U+2007", "U+2008", "U+2009", "U+200A", "U+2028",
                    "U+2029", "U+202F", "U+205F", "U+3000", "U+FEFF"}
    THEN SkipSpaces(s, i + 1) ELSE i

ParseInt(s) ==
    LET b     == SkipSpaces(s, 1)
        neg   == b <= Len(s) /\ s[b] = "-"
        sgn   == IF b <= Len(s) /\ s[b] \in {"-", "+"} THEN b + 1 ELSE b
        hex   == sgn + 1 <= Len(s) /\ s[sgn] = "0" /\ s[sgn + 1] \in {"x", "X"}
        radix == IF hex THEN 16 ELSE 10
        run   == ParseDigits(s, IF hex THEN sgn + 2 ELSE sgn, radix)
        nz    == {i \in DOMAIN run : run[i] # 0}
    IN  IF run = << >> THEN NaN
        ELSE ToDouble(IF neg THEN 0 - 1 ELSE 1,
                      IF nz = {} THEN << >>
                      ELSE SubSeq(run, CHOOSE i \in nz : \A j \in nz : i <= j,
                                  Len(run)),
                      radix)

\* String(n) of a non-negative integer: parseInt converts its argument to a
\* string first, so the default 20 is read as "20".
RECURSIVE ToChars(_)
ToChars(n) ==
    IF n < 10 THEN <<DigitChars[n + 1]>>
    ELSE Append(ToChars(n \div 10), DigitChars[(n % 10) + 1])

\* const { type, maxResults = 20 } = req.query
Undefined == "undefined"
QueryType(q) == IF "type" \in DOMAIN q THEN q.type ELSE Undefined
QueryMaxResults(q) ==
    IF "maxResults" \in DOMAIN q THEN q.maxResults
    ELSE ToChars(DefaultMaxResults)

\* const requestedMax = parseInt(maxResults)
RequestedMax(q) == ParseInt(QueryMaxResults(q))

\* const poolSize = Math.max(requestedMax, 100)
PoolSize(q) == MathMax(RequestedMax(q), Num(PoolFloor))

\* ---------------------------------------------------- Array.slice(0, end)
\* An end beyond the length of the array, on either side, counts as the
\* length.
Slice(arr, end) ==
    LET len == Len(arr)
        rel == IF IsNaN(end) THEN 0
               ELSE IF Len(end) > 1 THEN end[1] * len
               ELSE end[1]
        fin == IF rel < 0
               THEN (IF len + rel > 0 THEN len + rel ELSE 0)
               ELSE (IF rel < len THEN rel ELSE len)
    IN  SubSeq(arr, 1, fin)

\* ------------------------------------------------------------ dates
\* new Date(s).getTime(): a day number, NaN for an unparsable string.
DateStrings == {"2024-05-01", "2024-05-02", "soon"}
DateParse(s) ==
    CASE s = "2024-05-01" -> Num(1)
      [] s = "2024-05-02" -> Num(2)
      [] OTHER            -> NaN

\* -------------------------------------------- Array.prototype.sort
\* (a, b) => new Date(b.email.date) - new Date(a.email.date)
CompareFn(a, b) == Minus(DateParse(b.email.date), DateParse(a.email.date))

\* The comparator as the sort reads it: a NaN result counts as 0.
Order(a, b) == LET v == CompareFn(a, b) IN IF IsNaN(v) THEN 0 ELSE v[1]

\* The engine's sort (V8, TimSort).  Its arrays start at index 0: At and Put
\* read and write one element, Copy moves a range (the ranges may overlap),
\* ReverseRange reverses the elements from..to-1.  Where a step uses the
\* result of the step before it, the result is bound as the one element of a
\* set (CHOOSE r \in {step(x) : x \in {before}} : TRUE), so that it is
\* computed once, before the step.
At(a, i) == a[i + 1]
Put(a, i, v) == [a EXCEPT ![i + 1] = v]
Copy(source, srcPos, target, dstPos, length) ==
    SubSeq(target, 1, dstPos)
    \o SubSeq(source, srcPos + 1, srcPos + length)
    \o SubSeq(target, dstPos + length + 1, Len(target))
ReverseRange(a, from, to) ==
    SubSeq(a, 1, from)
    \o SubSeq([i \in 1..(to - from) |-> a[to + 1 - i]], 1, to - from)
    \o SubSeq(a, to + 1, Len(a))

kMinGallopWins == 7

\* The run length below which a run is extended by binary insertion: n
\* itself when n < 64, else the 6 leading bits of n, plus 1 when one of the
\* other bits is set (r).
RECURSIVE ComputeMinRunLength(_, _)
ComputeMinRunLength(n, r) ==
    IF n >= 64 THEN ComputeMinRunLength(n \div 2, IF n % 2 = 1 THEN 1 ELSE r)
    ELSE n + r

\* The first index in from..to-1 whose element ends the run (to when none
\* does): the range is searched by halves, the left half first.
RECURSIVE RunBreak(_, _, _, _)
RunBreak(work, desc, from, to) ==
    IF from >= to THEN to
    ELSE IF from + 1 = to
    THEN IF (Order(At(work, from), At(work, from - 1)) < 0) = desc THEN to ELSE from
    ELSE LET mid  == from + ((to - from) \div 2)
             left == RunBreak(work, desc, from, mid)
         IN  IF left < mid THEN left ELSE RunBreak(work, desc, mid, to)

\* The run at lowArg is found, and reversed when it is strictly descending.
CountAndMakeRun(work, lowArg, high) ==
    LET low == lowArg + 1
    IN  IF low = high THEN [work |-> work, length |-> 1]
        ELSE LET desc   == Order(At(work, low), At(work, low - 1)) < 0
                 length == RunBreak(work, desc, low + 1, high) - lowArg
             IN  [work |-> IF desc THEN ReverseRange(work, lowArg, lowArg + length)
                           ELSE work,
                  length |-> length]

RECURSIVE BinarySearch(_, _, _, _)
BinarySearch(work, pivot, left, right) ==
    IF left >= right THEN left
    ELSE LET mid == left + ((right - left) \div 2)
         IN  IF Order(pivot, At(work, mid)) < 0
             THEN BinarySearch(work, pivot, left, mid)
             ELSE BinarySearch(work, pivot, mid + 1, right)

\* The element at `from` is moved down to `to`; those between move up by one.
InsertAt(work, from, to) ==
    SubSeq(work, 1, to) \o <<work[from + 1]>> \o SubSeq(work, to + 1, from)
    \o SubSeq(work, from + 2, Len(work))

\* The elements start..high-1 are placed, one by one from the left, in the
\* sorted range that begins at low (the range is walked by halves).
RECURSIVE InsertFrom(_, _, _, _)
InsertFrom(work, low, start, high) ==
    IF start >= high THEN work
    ELSE IF start + 1 = high
    THEN InsertAt(work, start, BinarySearch(work, At(work, start), low, start))
    ELSE CHOOSE r \in {InsertFrom(w, low, start + ((high - start) \div 2), high) :
                       w \in {InsertFrom(work, low, start,
                                         start + ((high - start) \div 2))}} : TRUE
BinaryInsertionSort(work, low, startArg, high) ==
    InsertFrom(work, low, IF low = startArg THEN startArg + 1 ELSE startArg, high)

\* The comparison a gallop makes of an element with the key: gallopRight
\* asks key < element, gallopLeft asks element < key.
Cmp(right, element, key) ==
    IF right THEN Order(key, element) ELSE Order(element, key)

\* The offsets 1, 3, 7, .. from the hint, in direction dir, while the
\* comparison is negative (wantNeg) or is not: the last offset that passed
\* and the first that did not (at most maxOfs).
RECURSIVE GallopSteps(_, _, _, _, _, _, _, _, _)
GallopSteps(right, a, key, from, dir, wantNeg, lastOfs, offset, maxOfs) ==
    IF offset < maxOfs
       /\ (Cmp(right, At(a, from + dir * offset), key) < 0) = wantNeg
    THEN GallopSteps(right, a, key, from, dir, wantNeg, offset,
                     2 * offset + 1, maxOfs)
    ELSE <<lastOfs, IF offset > maxOfs THEN maxOfs ELSE offset>>

\* The binary search that ends a gallop.
RECURSIVE GallopSearch(_, _, _, _, _, _)
GallopSearch(right, a, key, base, lastOfs, offset) ==
    IF lastOfs >= offset THEN offset
    ELSE LET m == lastOfs + ((offset - lastOfs) \div 2)
         IN  IF (Cmp(right, At(a, base + m), key) < 0) = right
             THEN GallopSearch(right, a, key, base, lastOfs, m)
             ELSE GallopSearch(right, a, key, base, m + 1, offset)

\* gallopRight (right) and gallopLeft: where key belongs in the sorted range
\* a[base .. base+length-1], after the elements equal to it (gallopRight) or
\* before them (gallopLeft).  The gallop goes right of the hint or left of
\* it, then searches between the two offsets the steps ended with.
Gallop(right, a, key, base, length, hint) ==
    CHOOSE ofs \in
        {GallopSearch(right, a, key, base,
                      (IF goRight THEN r[1] + hint ELSE hint - r[2]) + 1,
                      IF goRight THEN r[2] + hint ELSE hint - r[1]) :
            <<goRight, r>> \in
                {<<g, GallopSteps(right, a, key, base + hint,
                                  IF g THEN 1 ELSE 0 - 1,
                                  IF g THEN ~right ELSE right,
                                  0, 1,
                                  IF g THEN length - hint ELSE hint + 1)>> :
                    g \in {(Cmp(right, At(a, base + hint), key) < 0) # right}}} :
        TRUE

\* A merge in progress (m): work and the copy temp of the shorter run, the
\* cursors dest, cursorTemp and cursor (in the run left in work), the lengths
\* left of run A and run B, the local minGallop and the one of the sort
\* state, the wins in a row of A and of B, the function the merge is made
\* by (high: mergeHigh, which copies run B and merges from the right, else
\* mergeLow, which copies run A and merges from the left), and the place
\* the merge is at (label): "straight" in the loop that takes one element
\* at a time, "gallopA" and "gallopB" in the first and the second half of
\* the loop that takes whole stretches, "done".
\* Label Succeed: what is left of temp is copied.
MergeSucceed(m) ==
    [m EXCEPT !.work = IF m.high
                       THEN IF m.lengthB > 0
                            THEN Copy(m.temp, 0, m.work,
                                      m.dest - (m.lengthB - 1), m.lengthB)
                            ELSE m.work
                       ELSE IF m.lengthA > 0
                            THEN Copy(m.temp, m.cursorTemp, m.work, m.dest,
                                      m.lengthA)
                            ELSE m.work,
              !.label = "done"]
\* Labels CopyB and CopyA: what is left of the run in work is moved, and
\* the last element of temp is put next to it.
MergeCopy(m) ==
    [m EXCEPT !.work = IF m.high
                       THEN Put(Copy(m.work, m.cursor - m.lengthA + 1, m.work,
                                     m.dest - m.lengthA + 1, m.lengthA),
                                m.dest - m.lengthA, At(m.temp, m.cursorTemp))
                       ELSE Put(Copy(m.work, m.cursor, m.work, m.dest, m.lengthB),
                                m.dest + m.lengthB, At(m.temp, m.cursorTemp)),
              !.label = "done"]

\* The exits taken after elements of run A, and of run B, have been taken.
EndA(m) ==
    IF m.high THEN IF m.lengthA = 0 THEN MergeSucceed(m) ELSE m
    ELSE IF m.lengthA = 1 THEN MergeCopy(m) ELSE m
EndB(m) ==
    IF m.high THEN IF m.lengthB = 1 THEN MergeCopy(m) ELSE m
    ELSE IF m.lengthB = 0 THEN MergeSucceed(m) ELSE m

\* One element of run A, and of run B, is taken: it comes from temp or from
\* work, and the cursors go up (mergeLow) or down (mergeHigh).
OneA(m) ==
    IF m.high
    THEN [m EXCEPT !.work = Put(m.work, m.dest, At(m.work, m.cursor)),
                   !.dest = @ - 1, !.cursor = @ - 1, !.lengthA = @ - 1]
    ELSE [m EXCEPT !.work = Put(m.work, m.dest, At(m.temp, m.cursorTemp)),
                   !.dest = @ + 1, !.cursorTemp = @ + 1, !.lengthA = @ - 1]
OneB(m) ==
    IF m.high
    THEN [m EXCEPT !.work = Put(m.work, m.dest, At(m.temp, m.cursorTemp)),
                   !.dest = @ - 1, !.cursorTemp = @ - 1, !.lengthB = @ - 1]
    ELSE [m EXCEPT !.work = Put(m.work, m.dest, At(m.work, m.cursor)),
                   !.dest = @ + 1, !.cursor = @ + 1, !.lengthB = @ - 1]

\* A merge that has taken one element turns to galloping when the run the
\* element came from has won minGallop times in a row.
AfterStraight(m, wins) ==
    IF m.label = "done" THEN m
    ELSE IF wins >= m.minGallop
    THEN [m EXCEPT !.minGallop = @ + 1, !.label = "gallopA"]
    ELSE m

\* One pass of the inner loop: the heads (mergeLow) or the tails (mergeHigh)
\* of the two runs are compared and one of them is taken.
Straight(m) ==
    IF ((IF m.high THEN Order(At(m.temp, m.cursorTemp), At(m.work, m.cursor))
                   ELSE Order(At(m.work, m.cursor), At(m.temp, m.cursorTemp))) < 0)
       = m.high
    THEN AfterStraight(EndA([OneA(m) EXCEPT !.nofWinsA = @ + 1, !.nofWinsB = 0]),
                       m.nofWinsA + 1)
    ELSE AfterStraight(EndB([OneB(m) EXCEPT !.nofWinsB = @ + 1, !.nofWinsA = 0]),
                       m.nofWinsB + 1)

\* The end of one pass of the galloping loop: it goes on while a stretch was
\* at least kMinGallopWins long, else the merge is back to single elements.
GallopOn(m) ==
    IF m.label = "done" THEN m
    ELSE IF m.nofWinsA >= kMinGallopWins \/ m.nofWinsB >= kMinGallopWins
    THEN [m EXCEPT !.label = "gallopA"]
    ELSE [m EXCEPT !.minGallop = @ + 1, !.stateGallop = m.minGallop + 1,
                   !.nofWinsA = 0, !.nofWinsB = 0, !.label = "straight"]

\* Galloping, first half: minGallop goes down by one, and the nofA elements
\* of run A that go before (mergeLow) or after (mergeHigh) the next of B
\* are taken.
TakeA(m, minGallop, nofA) ==
    IF nofA = 0
    THEN [m EXCEPT !.minGallop = minGallop, !.stateGallop = minGallop,
                   !.nofWinsA = 0]
    ELSE IF m.high
    THEN [m EXCEPT !.minGallop = minGallop, !.stateGallop = minGallop,
                   !.nofWinsA = nofA,
                   !.work = Copy(m.work, m.cursor - nofA + 1, m.work,
                                 m.dest - nofA + 1, nofA),
                   !.dest = @ - nofA, !.cursor = @ - nofA, !.lengthA = @ - nofA]
    ELSE [m EXCEPT !.minGallop = minGallop, !.stateGallop = minGallop,
                   !.nofWinsA = nofA,
                   !.work = Copy(m.temp, m.cursorTemp, m.work, m.dest, nofA),
                   !.dest = @ + nofA, !.cursorTemp = @ + nofA,
                   !.lengthA = @ - nofA]
AfterA(m) ==
    IF m.nofWinsA = 0 THEN [m EXCEPT !.label = "gallopB"]
    ELSE IF m.high
    THEN IF m.lengthA = 0 THEN MergeSucceed(m) ELSE [m EXCEPT !.label = "gallopB"]
    ELSE IF m.lengthA = 1 THEN MergeCopy(m)
    ELSE IF m.lengthA = 0 THEN MergeSucceed(m)
    ELSE [m EXCEPT !.label = "gallopB"]
GallopA(m) ==
    AfterA(TakeA(m, IF m.minGallop - 1 > 1 THEN m.minGallop - 1 ELSE 1,
                 IF m.high
                 THEN m.lengthA - Gallop(TRUE, m.work, At(m.temp, m.cursorTemp),
                                         m.baseA, m.lengthA, m.lengthA - 1)
                 ELSE Gallop(TRUE, m.temp, At(m.work, m.cursor), m.cursorTemp,
                             m.lengthA, 0)))

\* Galloping, second half: one element of run B is taken, then the nofB
\* elements of run B that go before (mergeLow) or after (mergeHigh) the next
\* of A, then one element of run A.
TakeB(m, nofB) ==
    IF nofB = 0 THEN [m EXCEPT !.nofWinsB = 0]
    ELSE IF m.high
    THEN [m EXCEPT !.nofWinsB = nofB,
                   !.work = Copy(m.temp, m.cursorTemp - nofB + 1, m.work,
                                 m.dest - nofB + 1, nofB),
                   !.dest = @ - nofB, !.cursorTemp = @ - nofB,
                   !.lengthB = @ - nofB]
    ELSE [m EXCEPT !.nofWinsB = nofB,
                   !.work = Copy(m.work, m.cursor, m.work, m.dest, nofB),
                   !.dest = @ + nofB, !.cursor = @ + nofB, !.lengthB = @ - nofB]
AfterB(m) ==
    IF m.nofWinsB > 0 /\ m.high /\ m.lengthB = 1 THEN MergeCopy(m)
    ELSE IF m.nofWinsB > 0 /\ m.lengthB = 0 THEN MergeSucceed(m)
    ELSE GallopOn(EndA(OneA(m)))
AfterOneB(m) ==
    IF m.label = "done" THEN m
    ELSE AfterB(TakeB(m, IF m.high
                         THEN m.lengthB - Gallop(FALSE, m.temp, At(m.work, m.cursor),
                                                 0, m.lengthB, m.lengthB - 1)
                         ELSE Gallop(FALSE, m.work, At(m.temp, m.cursorTemp),
                                     m.cursor, m.lengthB, 0)))
GallopB(m) == AfterOneB(EndB(OneB(m)))

\* One pass from the place the merge is at.
MergeStep(m) ==
    CASE m.label = "done"     -> m
      [] m.label = "straight" -> Straight(m)
      [] m.label = "gallopA"  -> GallopA(m)
      [] m.label = "gallopB"  -> GallopB(m)

\* n passes (two passes take at least one element, so the elements left
\* bound their number); the passes are made by halves.
RECURSIVE MergeSteps(_, _)
MergeSteps(m, n) ==
    IF n = 0 \/ m.label = "done" THEN m
    ELSE IF n = 1 THEN MergeStep(m)
    ELSE MergeSteps(MergeSteps(m, n \div 2), n - (n \div 2))

\* The first element is taken before the loops: of run B by mergeLow, of
\* run A by mergeHigh.
MergeStart(m) ==
    IF m.high
    THEN IF m.lengthA = 0 THEN MergeSucceed(m) ELSE EndB(m)
    ELSE IF m.lengthB = 0 THEN MergeSucceed(m) ELSE EndA(m)

\* Run A is the shorter: it is copied to temp and merged from the left.
MergeLow(work, minGallop, baseA, lengthA, baseB, lengthB) ==
    MergeSteps(
        MergeStart([work |-> Put(work, baseA, At(work, baseB)),
                    temp |-> SubSeq(work, baseA + 1, baseA + lengthA),
                    dest |-> baseA + 1, cursorTemp |-> 0, cursor |-> baseB + 1,
                    baseA |-> baseA,
                    lengthA |-> lengthA, lengthB |-> lengthB - 1,
                    minGallop |-> minGallop, stateGallop |-> minGallop,
                    nofWinsA |-> 0, nofWinsB |-> 0,
                    high |-> FALSE, label |-> "straight"]),
        2 * (lengthA + lengthB))

\* Run B is the shorter: it is copied to temp and merged from the right.
MergeHigh(work, minGallop, baseA, lengthA, baseB, lengthB) ==
    MergeSteps(
        MergeStart([work |-> Put(work, baseB + lengthB - 1,
                                 At(work, baseA + lengthA - 1)),
                    temp |-> SubSeq(work, baseB + 1, baseB + lengthB),
                    dest |-> baseB + lengthB - 2, cursorTemp |-> lengthB - 1,
                    cursor |-> baseA + lengthA - 2,
                    baseA |-> baseA,
                    lengthA |-> lengthA - 1, lengthB |-> lengthB,
                    minGallop |-> minGallop, stateGallop |-> minGallop,
                    nofWinsA |-> 0, nofWinsB |-> 0,
                    high |-> TRUE, label |-> "straight"]),
        2 * (lengthA + lengthB))

\* The sort state (st): work, the stack of pending runs (base and length)
\* and minGallop.  mergeAt: the runs a and b at stack positions i and i+1
\* become one run; the first k elements of a are in place already, and so
\* are the elements of b after the first lengthB; the rest is merged, the
\* shorter part being the one copied.
MergeTrimmed(st, a, b, k, lengthB) ==
    IF a.length - k = 0 \/ lengthB = 0
    THEN [work |-> st.work, stateGallop |-> st.minGallop]
    ELSE IF a.length - k <= lengthB
    THEN MergeLow(st.work, st.minGallop, a.base + k, a.length - k, b.base, lengthB)
    ELSE MergeHigh(st.work, st.minGallop, a.base + k, a.length - k, b.base, lengthB)
MergeRuns(st, i, a, b, k) ==
    CHOOSE merged \in
        {[work |-> r.work,
          runs |-> SubSeq(st.runs, 1, i)
                   \o <<[base |-> a.base, length |-> a.length + b.length]>>
                   \o SubSeq(st.runs, i + 3, Len(st.runs)),
          minGallop |-> r.stateGallop] :
            r \in {MergeTrimmed(st, a, b, k,
                                IF a.length - k = 0 THEN 0
                                ELSE Gallop(FALSE, st.work,
                                            At(st.work, a.base + a.length - 1),
                                            b.base, b.length, b.length - 1))}} :
        TRUE
MergeAt(st, i) ==
    MergeRuns(st, i, st.runs[i + 1], st.runs[i + 2],
              Gallop(TRUE, st.work, At(st.work, st.runs[i + 2].base),
                     st.runs[i + 1].base, st.runs[i + 1].length, 0))

RunInvariantEstablished(runs, n) ==
    IF n < 2 THEN TRUE
    ELSE runs[n - 1].length > runs[n].length + runs[n + 1].length

\* mergeCollapse: pending runs are merged until the lengths on the stack
\* decrease fast enough (n is the last stack position but one).
RECURSIVE MergeCollapse(_)
MergeCollapse(st) ==
    IF Len(st.runs) <= 1 THEN st
    ELSE LET n     == Len(st.runs) - 2
             short == ~RunInvariantEstablished(st.runs, n + 1)
                      \/ ~RunInvariantEstablished(st.runs, n)
         IN  IF short \/ st.runs[n + 1].length <= st.runs[n + 2].length
             THEN MergeCollapse(
                      MergeAt(st, IF short /\ st.runs[n].length < st.runs[n + 2].length
                                  THEN n - 1 ELSE n))
             ELSE st

\* mergeForceCollapse: all pending runs are merged.
RECURSIVE MergeForceCollapse(_)
MergeForceCollapse(st) ==
    IF Len(st.runs) <= 1 THEN st
    ELSE LET n == Len(st.runs) - 2
         IN  MergeForceCollapse(
                 MergeAt(st, IF n > 0 /\ st.runs[n].length < st.runs[n + 2].length
                             THEN n - 1 ELSE n))

\* The runs are found from left to right; a run shorter than minRunLength is
\* extended, by binary insertion, to minRunLength (or to all that remains);
\* each run is pushed on the stack, which is then collapsed.
RECURSIVE ArrayTimSortImpl(_, _, _, _)
ArrayTimSortImpl(st, low, remaining, minRunLength) ==
    IF remaining = 0 THEN MergeForceCollapse(st)
    ELSE LET run    == CountAndMakeRun(st.work, low, low + remaining)
             forced == IF minRunLength < remaining THEN minRunLength ELSE remaining
             length == IF run.length < minRunLength THEN forced ELSE run.length
         IN  ArrayTimSortImpl(
                 MergeCollapse(
                     [st EXCEPT !.work = IF run.length < minRunLength
                                         THEN BinaryInsertionSort(
                                                  run.work, low, low + run.length,
                                                  low + forced)
                                         ELSE run.work,
                                !.runs = Append(@, [base |-> low,
                                                    length |-> length])]),
                 low + length, remaining - length, minRunLength)

ArraySortUnsorted(arr) == arr
\* allFilteredEmails.sort(comparator)
ArraySort(arr) ==
    IF Len(arr) < 2 THEN arr
    ELSE ArrayTimSortImpl([work |-> arr, runs |-> << >>,
                           minGallop |-> kMinGallopWins],
                          0, Len(arr), ComputeMinRunLength(Len(arr), 0)).work

\* ------------------------------------------------ keyword heuristics
\* A text is a sequence of words.  StemsIn(w) is the set of alternatives of
\* the four regular expressions that occur in w, case ignored (the patterns
\* carry the i flag and no word boundary, so "misleading" holds "lead").
Words == {"hello", "ASAP", "Urgent", "Invoice", "proposal", "misleading", "Party"}
StemsIn(w) ==
    CASE w = "ASAP"       -> {"asap"}
      [] w = "Urgent"     -> {"urgent"}
      [] w = "Invoice"    -> {"invoice"}
      [] w = "proposal"   -> {"proposal"}
      [] w = "misleading" -> {"lead"}
      [] w = "Party"      -> {"party"}
      [] OTHER            -> {}

financialKeywords ==
    {"invoice", "receipt", "bill", "payment", "statement", "bank",
     "subscription", "tax", "credit", "charge", "paypal", "stripe",
     "transaction", "order", "refund", "amount", "due", "warranty"}
urgentKeywords ==
    {"urgent", "asap", "immediate", "overdue", "important",
     "action required", "past due", "final notice", "respond now"}
leadsKeywords ==
    {"lead", "opportunit", "proposal", "quote", "estimate", "rfp", "rfq",
     "demo", "trial", "pricing", "partnership", "collaborat",
     "sales inquiry", "new client"}
socialKeywords ==
    {"friend", "family", "invitation", "invite", "party", "birthday",
     "wedding", "linkedin", "facebook", "instagram", "twitter", "x.com",
     "follow", "connect", "social"}

\* regex.test(text)
RegexTest(regex, text) == \E i \in DOMAIN text : StemsIn(text[i]) \cap regex # {}

\* e.f || '' : the empty text when the field is missing.
OrEmpty(e, f) == IF f \in DOMAIN e THEN e[f] ELSE << >>

\* `${fullEmail.subject || ''} ${fullEmail.body || ''}`
FullText(e) == OrEmpty(e, "subject") \o OrEmpty(e, "body")
\* `${email.subject || ''} ${email.snippet || ''}`
SummaryText(e) == OrEmpty(e, "subject") \o OrEmpty(e, "snippet")

GeneralTasks == {"urgent", "leads", "social"}

\* The keyword pattern the switch tests for each case.
TaskKeywords(t) ==
    CASE t = "urgent" -> urgentKeywords
      [] t = "leads"  -> leadsKeywords
      [] t = "social" -> socialKeywords

\* The task name the switch hands to chatgptService.processEmail.
TaskBackend(t) == IF t = "urgent" THEN "priority_score" ELSE "smart_categorize"

\* ------------------------------------------- classifier judgments
\* A classifier response is a record; its result field, when present, is a
\* record whose fields may be missing.
HasField(r, f) == f \in DOMAIN r
FieldIs(r, f, v) == HasField(r, f) /\ r[f] = v

\* pr.result.priority_score || 5   (a missing or zero score reads as 5)
Priority(result) ==
    IF HasField(result, "priority_score") /\ result.priority_score # 0
    THEN result.priority_score
    ELSE DefaultPriority

UrgentIncludeDefaultHigh(result) ==
    (IF HasField(result, "priority_score") THEN result.priority_score
     ELSE UrgentThreshold) >= UrgentThreshold
\* shouldInclude = priority >= 8
UrgentInclude(result) == Priority(result) >= UrgentThreshold

\* cr.result.primary_category === 'work' && cr.result.sub_category === 'project'
LeadsInclude(result) ==
    FieldIs(result, "primary_category", "work")
    /\ FieldIs(result, "sub_category", "project")

\* sr.result.primary_category === 'social' || ... === 'personal'
SocialInclude(result) ==
    FieldIs(result, "primary_category", "social")
    \/ FieldIs(result, "primary_category", "personal")

\* The switch's semantic branch for the three general tasks.
SemanticInclude(t, result) ==
    CASE t = "urgent" -> UrgentInclude(result)
      [] t = "leads"  -> LeadsInclude(result)
      [] t = "social" -> SocialInclude(result)

\* ----------------------------------------------------- the response
\* res is [sent, attempts]: the responses written to the client and the
\* calls of res.json (a call made after the headers were sent throws
\* ERR_HTTP_HEADERS_SENT and writes nothing).
HeadersSent(r) == r.sent # << >>

\* res.status(..).json(body), called by `by`
ResJson(r, by, body) ==
    IF HeadersSent(r)
    THEN [r EXCEPT !.attempts = Append(@, [by |-> by, threw |-> TRUE])]
    ELSE [r EXCEPT !.sent = Append(@, body),
                   !.attempts = Append(@, [by |-> by, threw |-> FALSE])]

TimeoutBody ==
    [status |-> 408, error |-> "Request timeout",
     details |-> "The request took too long to process"]
ErrorBody   == [status |-> 500, error |-> "Failed to filter emails by category"]
EmptyBody   == [status |-> 200, filteredEmails |-> << >>]
SuccessBody(sorted, max) ==
    [status |-> 200, filteredEmails |-> Slice(sorted, max),
     totalFound |-> Len(sorted)]

TimerSendNothing(r) == r
TimerSendUnguarded(r) == ResJson(r, "timer", TimeoutBody)
\* if (!res.headersSent) res.status(408).json(..)
TimerSend(r) == IF HeadersSent(r) THEN r ELSE ResJson(r, "timer", TimeoutBody)

\* catch (error) { if (!res.headersSent) res.status(500).json(..) }
SendError(r) == IF HeadersSent(r) THEN r ELSE ResJson(r, "error", ErrorBody)

\* if (!res.headersSent) return res.json({ filteredEmails, totalFound })
SendSuccess(r, sorted, max) ==
    IF HeadersSent(r) THEN r ELSE ResJson(r, "success", SuccessBody(sorted, max))

SendEmptyAsError(r) == SendError(r)
\* return res.json({ filteredEmails: [] }) inside the handler's try block:
\* when it throws, the catch block runs.
SendEmpty(r) ==
    LET r1 == ResJson(r, "empty", EmptyBody)
    IN  IF HeadersSent(r) THEN SendError(r1) ELSE r1

\* ------------------------------------------------------------ inputs
AccountIds == 1..MaxAccounts

\* What an awaited call yields: a throw, a value, or null/undefined.
Throw == [threw |-> TRUE]
Ret(v) == [threw |-> FALSE, value |-> v]
Nothing == [threw |-> FALSE, nothing |-> TRUE]
IsNothing(out) == ~HasField(out, "value")

\* The queries tried: each type, and each maxResults, at least once.
Queries ==
    {[type |-> "urgent"],
     [type |-> "urgent", maxResults |-> <<"-", "1">>],
     [type |-> "leads", maxResults |-> <<"1">>],
     [type |-> "social", maxResults |-> <<"a", "l", "l">>],
     [type |-> "financial", maxResults |-> <<"2">>],
     [type |-> "financial",
      maxResults |-> <<"9", "0", "0", "7", "1", "9", "9", "2", "5", "4", "7",
                       "4", "0", "9", "9", "3">>],
     [type |-> "spam", maxResults |-> <<"0", "x", "0">>],
     [maxResults |-> <<"\t", "2">>]}

\* userService.getGmailAccounts: a throw, null, or a list of accounts.
AccountList(n) == [i \in 1..n |-> [id |-> i]]
AccountsOutcomes ==
    {Throw, Nothing}
    \cup {Ret(AccountList(n)) : n \in 0..MaxAccounts}

\* userService.getGmailTokens: a throw, nothing, or a token bundle.
TokensOutcomes == {Throw, Nothing, Ret([access_token |-> "t"])}

\* gmailService.getEmails for the general tasks: a throw, a reply without an
\* emails field, or a page of k summaries.
IdList(k) == [i \in 1..k |-> [id |-> i]]
ListOutcomes(room) ==
    {Throw, Ret([nextPageToken |-> "none"])}
    \cup {Ret([emails |-> IdList(k)]) : k \in 0..room}

\* Summaries as the financial branch reads them (subject, snippet, date).
SummaryTexts ==
    {[subject |-> <<"hello">>, snippet |-> <<"Invoice">>],
     [snippet |-> <<"hello">>]}
Summaries(i) ==
    {[id |-> i, date |-> d] @@ t : d \in DateStrings, t \in SummaryTexts}
RECURSIVE SummaryListsOfLen(_)
SummaryListsOfLen(k) ==
    IF k = 0 THEN {<< >>}
    ELSE {Append(l, m) : l \in SummaryListsOfLen(k - 1), m \in Summaries(k)}
SummaryLists(room) == UNION {SummaryListsOfLen(k) : k \in 0..room}

Bucket == "Financial & Bills"
CategorizedOutcomes(room) ==
    {Throw, Ret([total |-> 0]), Ret([categories |-> ("Work" :> << >>)])}
    \cup {Ret([categories |-> (Bucket :> l)]) : l \in SummaryLists(room)}
FallbackOutcomes(room) ==
    {Throw, Ret([nextPageToken |-> "none"])}
    \cup {Ret([emails |-> l]) : l \in SummaryLists(room)}

\* gmailService.getEmailById: a throw or the full message.
FullTexts ==
    {[subject |-> <<"hello">>],
     [subject |-> <<"ASAP">>, body |-> <<"hello">>],
     [subject |-> <<"hello">>, body |-> <<"proposal">>],
     [subject |-> <<"misleading">>],
     [body |-> <<"Party">>]}
DetailOutcomes(i) ==
    {Throw} \cup {Ret([id |-> i, date |-> d] @@ t) :
                      d \in DateStrings, t \in FullTexts}

\* chatgptService.processEmail: a throw, a reply without a result, or a
\* reply with a result whose fields may be missing.
PriorityResults ==
    {[reasoning |-> "none"], [priority_score |-> 7], [priority_score |-> 8]}
CategoryResults ==
    {[primary_category |-> "work", sub_category |-> "project"],
     [primary_category |-> "work", sub_category |-> "meeting"],
     [primary_category |-> "social"],
     [primary_category |-> "personal", sub_category |-> "project"]}
ClassifierOutcomes(task) ==
    {Throw, Ret([error |-> "quota"])}
    \cup {Ret([result |-> r]) :
            r \in IF task = "priority_score" THEN PriorityResults
                  ELSE CategoryResults}

\* ------------------------------------------------------------ routing
\* The routes under /api/emails, per method, in registration order (lines
\* 292-673): the pattern, by path segment, and the handler.  A request is
\* served by the first route of its method whose pattern matches the path; a
\* segment that starts with ':' matches any one segment.  None of the
\* handlers calls next().  A HEAD request is served by the routes of GET;
\* no route under /api/emails is registered for another method.
GetRoutes ==
    <<[pattern |-> <<"api", "emails", "filter">>, handler |-> "filter"],
      [pattern |-> <<"api", "emails", ":accountId">>, handler |-> "list"],
      [pattern |-> <<"api", "emails", ":accountId", "filtered">>, handler |-> "filtered"],
      [pattern |-> <<"api", "emails", ":accountId", "urgent">>, handler |-> "urgent"],
      [pattern |-> <<"api", "emails", ":accountId", "categorized">>, handler |-> "categorized"],
      [pattern |-> <<"api", "emails", ":accountId", "subinboxes">>, handler |-> "subinboxes"],
      [pattern |-> <<"api", "emails", ":accountId", "search">>, handler |-> "search"],
      [pattern |-> <<"api", "emails", ":accountId", ":emailId">>, handler |-> "email"],
      [pattern |-> <<"api", "emails", ":accountId", "insights">>, handler |-> "insights"]>>
PostRoutes ==
    <<[pattern |-> <<"api", "emails", ":accountId", ":emailId", "process">>, handler |-> "process"],
      [pattern |-> <<"api", "emails", ":accountId", ":emailId", "reply">>, handler |-> "reply"],
      [pattern |-> <<"api", "emails", ":accountId", "batch-process">>, handler |-> "batch-process"],
      [pattern |-> <<"api", "emails", ":accountId", "smart-filter">>, handler |-> "smart-filter"]>>
Matches(pattern, path) ==
    /\ Len(pattern) = Len(path)
    /\ \A i \in DOMAIN pattern :
           pattern[i] \in {":accountId", ":emailId"} \/ pattern[i] = path[i]
Dispatch(rq) ==
    LET routes == CASE rq.method \in {"GET", "HEAD"} -> GetRoutes
                    [] rq.method = "POST"            -> PostRoutes
                    [] OTHER                         -> << >>
        hits == {i \in DOMAIN routes : Matches(routes[i].pattern, rq.path)}
    IN  IF hits = {} THEN "none"
        ELSE routes[CHOOSE i \in hits : \A j \in hits : i <= j].handler

FilterRequests == {[method |-> "GET", path |-> <<"api", "emails", "filter">>]}
NoRequest == [method |-> "none", path |-> << >>]

\* ------------------------------------------------------------- state
VARIABLES
    pc,                 \* the call the handler awaits; "idle" before, "done" after
    type,               \* req.query.type
    requestedMax,       \* parseInt(maxResults)
    poolSize,           \* Math.max(requestedMax, 100)
    accounts,           \* the list getGmailAccounts returned
    ai,                 \* position of the for-of loop over accounts
    pool,               \* emails.emails of the account in progress
    mi,                 \* position of the for-of loop over the pool
    fullEmail,          \* the message whose classification is awaited (the
                        \* fields the handler still reads: id and date)
    allFilteredEmails,  \* the collector
    res,                \* the response
    timer,              \* "unset", "armed", "fired" or "cleared"
    calls,              \* history: the external calls the category-filter
                        \* route issued so far, by kind
    seen,               \* history: what became of each message considered
    acct,               \* history: what became of each account
    linked,             \* history: what getGmailAccounts yielded
    request,            \* the request: its method and its path, by segment
    route,              \* the handler that serves the request; "none"
                        \* before it is entered
    filterType,         \* smart-filter: req.body.filterType
    filteredResults     \* smart-filter: the entries collected

\* What only the smart-filter handler writes.
singleVars == <<filterType, filteredResults>>
\* What only the category-filter route writes.
filterVars == <<type, requestedMax, poolSize, accounts, ai, allFilteredEmails,
                seen, acct, linked>>

vars == <<pc, type, requestedMax, poolSize, accounts, ai, pool, mi, fullEmail,
          allFilteredEmails, res, timer, calls, seen, acct, linked, request,
          route, filterType, filteredResults>>

NoEmail  == [id |-> 0]
NoResult == [none |-> TRUE]

Init ==
    /\ pc = "idle"
    /\ type = Undefined
    /\ requestedMax = NaN
    /\ poolSize = NaN
    /\ accounts = << >>
    /\ ai = 0
    /\ pool = << >>
    /\ mi = 0
    /\ fullEmail = NoEmail
    /\ allFilteredEmails = << >>
    /\ res = [sent |-> << >>, attempts |-> << >>]
    /\ timer = "unset"
    /\ calls = [tokens |-> {}, list |-> {}, detail |-> {}, classify |-> {},
                heuristic |-> {}]
    /\ seen = {}
    /\ acct = [a \in AccountIds |-> [status |-> "none", listed |-> 0]]
    /\ linked = "unknown"
    /\ request = NoRequest
    /\ route = "none"
    /\ filterType = Undefined
    /\ filteredResults = << >>

AddCall(cl, kind, c) == [cl EXCEPT ![kind] = @ \cup {c}]

\* How many more messages the mailboxes may still show in this request.
Room == (IF type = "financial" THEN MaxListed ELSE MaxFetched) - Cardinality(seen)

\* allFilteredEmails.push({ email, accountId: account.id, .. }): of the email,
\* the fields the aggregation reads (its id and its date).
Match(e, a) == [email |-> [id |-> e.id, date |-> e.date], accountId |-> a]

Verdict(a, i, src, threw, heur, result) ==
    [acct |-> a, id |-> i, src |-> src, threw |-> threw, heuristic |-> heur,
     result |-> result]

\* ------------------------------------------- the handler's control flow
\* Lines 385-391: after the loop over the accounts, sort, slice and answer.
Finish(coll, cl) ==
    LET sorted == ArraySort(coll)
    IN  /\ allFilteredEmails' = sorted
        /\ res' = SendSuccess(res, sorted, requestedMax)
        /\ calls' = cl
        /\ pc' = "done"
        /\ fullEmail' = NoEmail
        /\ UNCHANGED <<ai, pool, mi>>

\* The account in progress is over (normally, by continue, or through the
\* catch of line 380): go to the next account, or leave the loop.
NextAccount(coll, cl, status) ==
    /\ acct' = [acct EXCEPT ![accounts[ai].id].status = status]
    /\ IF ai < Len(accounts)
       THEN /\ ai' = ai + 1
            /\ pc' = "getGmailTokens"
            /\ calls' = AddCall(cl, "tokens", accounts[ai + 1].id)
            /\ allFilteredEmails' = coll
            /\ pool' = << >>
            /\ mi' = 0
            /\ fullEmail' = NoEmail
            /\ UNCHANGED res
       ELSE Finish(coll, cl)

\* The message in progress is over (normally or through the catch of line
\* 376): fetch the next message of the pool, or end the account.
NextMessage(coll, cl) ==
    IF mi < Len(pool)
    THEN /\ mi' = mi + 1
         /\ pc' = "getEmailById"
         /\ calls' = AddCall(cl, "detail",
                             [acct |-> accounts[ai].id, id |-> pool[mi + 1].id])
         /\ allFilteredEmails' = coll
         /\ fullEmail' = NoEmail
         /\ UNCHANGED <<ai, pool, res, acct>>
    ELSE NextAccount(coll, cl, "ok")

AccountFailedAborts(coll, cl) ==
    /\ acct' = [acct EXCEPT ![accounts[ai].id].status = "failed"]
    /\ res' = SendError(res)
    /\ pc' = "done"
    /\ calls' = cl
    /\ allFilteredEmails' = coll
    /\ fullEmail' = NoEmail
    /\ UNCHANGED <<ai, pool, mi>>
\* The account in progress is given up: `if (!tokens) continue` of line 315,
\* or catch (error) { console.error(..) } of lines 380-382, inside the loop
\* over the accounts, so the loop goes on with the next account.
AccountFailed(coll, cl) == NextAccount(coll, cl, "failed")

MessageFailedAborts(coll, cl) ==
    /\ res' = SendError(res)
    /\ pc' = "done"
    /\ calls' = cl
    /\ allFilteredEmails' = coll
    /\ fullEmail' = NoEmail
    /\ UNCHANGED <<ai, pool, mi, acct>>
MessageFailedEndsLoop(coll, cl) == NextAccount(coll, cl, "ok")
\* catch (error) { console.error(..) } of lines 376-378: inside the loop over
\* the pool, so the loop goes on with the next message.
MessageFailed(coll, cl) == NextMessage(coll, cl)

\* --------------------------------------------------------- the actions
\* Lines 68-82: the request arrives at the timeout middleware, which arms
\* the timer (the filter route gets the long budget), registers the 'finish'
\* listener and calls next().  The chain that follows (body parsers, static
\* files, requireAuth) reaches the handler in a later turn of the event loop:
\* the timer callback can run in between.
Arrive(requests) ==
    /\ pc = "idle"
    /\ \E rq \in requests : request' = rq
    /\ timer' = "armed"
    /\ pc' = "next"
    /\ UNCHANGED <<pool, mi, fullEmail, res, calls, route>>
    /\ UNCHANGED <<filterVars, singleVars>>

FilterArrives == Arrive(FilterRequests)

\* Lines 292-298: the chain reaches the route that matches the request; the
\* handler reads the query and awaits the account list.
Request ==
    /\ pc = "next"
    /\ Dispatch(request) = "filter"
    /\ \E q \in Queries :
        /\ type' = QueryType(q)
        /\ requestedMax' = RequestedMax(q)
        /\ poolSize' = PoolSize(q)
    /\ route' = "filter"
    /\ pc' = "getGmailAccounts"
    /\ UNCHANGED <<accounts, ai, pool, mi, fullEmail, allFilteredEmails, res,
                   timer, calls, seen, acct, linked, request>>
    /\ UNCHANGED singleVars

\* Lines 299-302 and the outer catch.
GetAccountsReturn ==
    /\ pc = "getGmailAccounts"
    /\ \E out \in AccountsOutcomes :
        IF out.threw
        THEN /\ res' = SendError(res)
             /\ pc' = "done"
             /\ linked' = "threw"
             /\ UNCHANGED <<accounts, ai, calls>>
        ELSE IF IsNothing(out) \/ Len(out.value) = 0
        THEN /\ res' = SendEmpty(res)
             /\ pc' = "done"
             /\ linked' = IF IsNothing(out) THEN "null" ELSE "zero"
             /\ UNCHANGED <<accounts, ai, calls>>
        ELSE /\ accounts' = out.value
             /\ linked' = "some"
             /\ ai' = 1
             /\ pc' = "getGmailTokens"
             /\ calls' = AddCall(calls, "tokens", out.value[1].id)
             /\ UNCHANGED res
    /\ UNCHANGED <<type, requestedMax, poolSize, pool, mi, fullEmail,
                   allFilteredEmails, timer, seen, acct>>
    /\ route = "filter"
    /\ UNCHANGED <<route, request, singleVars>>

\* Lines 314-319 and 340.
GetTokensReturn ==
    /\ pc = "getGmailTokens"
    /\ \E out \in TokensOutcomes :
        IF out.threw \/ IsNothing(out)
        THEN AccountFailed(allFilteredEmails, calls)
        ELSE /\ IF type = "financial"
                THEN /\ pc' = "getCategorizedEmails"
                     /\ calls' = AddCall(calls, "list",
                            [acct |-> accounts[ai].id,
                             op |-> "getCategorizedEmails",
                             size |-> Num(CategorizedMax)])
                ELSE /\ pc' = "getEmails"
                     /\ calls' = AddCall(calls, "list",
                            [acct |-> accounts[ai].id, op |-> "getEmails",
                             size |-> poolSize])
             /\ UNCHANGED <<ai, pool, mi, fullEmail, allFilteredEmails, res, acct>>
    /\ UNCHANGED <<type, requestedMax, poolSize, accounts, timer, seen, linked>>
    /\ route = "filter"
    /\ UNCHANGED <<route, request, singleVars>>

\* The financial keyword filter of lines 321-326 and 329-334 over a list of
\* summaries: the matches, in list order.
RECURSIVE FinancialMatches(_, _)
FinancialMatches(list, a) ==
    IF list = << >> THEN << >>
    ELSE LET rest == FinancialMatches(Tail(list), a)
         IN  IF RegexTest(financialKeywords, SummaryText(Head(list)))
             THEN <<Match(Head(list), a)>> \o rest
             ELSE rest

FinancialVerdicts(list, a, src) ==
    {Verdict(a, list[i].id, src, FALSE,
             RegexTest(financialKeywords, SummaryText(list[i])), NoResult) :
        i \in DOMAIN list}

\* categorized.categories && categorized.categories['Financial & Bills'] ? .. : []
FinancialList(categorized) ==
    IF HasField(categorized, "categories")
       /\ Bucket \in DOMAIN categorized.categories
    THEN categorized.categories[Bucket]
    ELSE << >>

\* Lines 319-337, up to the fallback's list call.
GetCategorizedReturn ==
    /\ pc = "getCategorizedEmails"
    /\ \E out \in CategorizedOutcomes(Room) :
        IF out.threw
        THEN /\ AccountFailed(allFilteredEmails, calls)
             /\ UNCHANGED seen
        ELSE LET a    == accounts[ai].id
                 list == FinancialList(out.value)
                 coll == allFilteredEmails \o FinancialMatches(list, a)
             IN  /\ seen' = seen \cup FinancialVerdicts(list, a, "bucket")
                 /\ IF Len(coll) = 0
                    THEN /\ pc' = "getEmailsFallback"
                         /\ calls' = AddCall(calls, "list",
                                [acct |-> a, op |-> "getEmails",
                                 size |-> requestedMax])
                         /\ allFilteredEmails' = coll
                         /\ UNCHANGED <<ai, pool, mi, fullEmail, res, acct>>
                    ELSE NextAccount(coll, calls, "ok")
    /\ UNCHANGED <<type, requestedMax, poolSize, accounts, timer, linked>>
    /\ route = "filter"
    /\ UNCHANGED <<route, request, singleVars>>

\* emails.emails || []
EmailsOf(emails) == IF HasField(emails, "emails") THEN emails.emails ELSE << >>

\* Lines 328-336.
FallbackReturn ==
    /\ pc = "getEmailsFallback"
    /\ \E out \in FallbackOutcomes(Room) :
        IF out.threw
        THEN /\ AccountFailed(allFilteredEmails, calls)
             /\ UNCHANGED seen
        ELSE LET a    == accounts[ai].id
                 list == EmailsOf(out.value)
             IN  /\ seen' = seen \cup FinancialVerdicts(list, a, "fallback")
                 /\ NextAccount(allFilteredEmails \o FinancialMatches(list, a),
                                calls, "ok")
    /\ UNCHANGED <<type, requestedMax, poolSize, accounts, timer, linked>>
    /\ route = "filter"
    /\ UNCHANGED <<route, request, singleVars>>

\* Lines 340-343: the pool arrives and the loop over it starts.
GetEmailsReturn ==
    /\ pc = "getEmails"
    /\ \E out \in ListOutcomes(Room) :
        IF out.threw
        THEN AccountFailed(allFilteredEmails, calls)
        ELSE LET list == EmailsOf(out.value)
                 a    == accounts[ai].id
             IN  IF list = << >>
                 THEN NextAccount(allFilteredEmails, calls, "ok")
                 ELSE /\ pool' = list
                      /\ mi' = 1
                      /\ pc' = "getEmailById"
                      /\ calls' = AddCall(calls, "detail",
                                          [acct |-> a, id |-> list[1].id])
                      /\ acct' = [acct EXCEPT ![a].listed = Len(list)]
                      /\ UNCHANGED <<ai, fullEmail, allFilteredEmails, res>>
    /\ UNCHANGED <<type, requestedMax, poolSize, accounts, timer, seen, linked>>
    /\ route = "filter"
    /\ UNCHANGED <<route, request, singleVars>>

\* urgentKeywords.test(text), and the like for leads and social
HeuristicMatch(t, e) == RegexTest(TaskKeywords(t), FullText(e))

DefaultIncludeAll == TRUE
\* default: shouldInclude = false  (a type that is none of the switch's cases)
DefaultInclude == FALSE

AsksClassifierAlways(kw) == TRUE
\* if (..Keywords.test(text)) { shouldInclude = true; break; }: the case is
\* left before the classifier call when the keyword test matched.
AsksClassifier(kw) == ~kw

\* Lines 343-378, up to the classifier call: the full message arrives, the
\* switch runs the task's keyword test and either includes the message or
\* asks the classifier.
GetEmailByIdReturn ==
    /\ pc = "getEmailById"
    /\ \E out \in DetailOutcomes(pool[mi].id) :
        LET a == accounts[ai].id
            i == pool[mi].id
        IN  IF out.threw
            THEN /\ seen' = seen \cup {Verdict(a, i, "pool", TRUE, FALSE, NoResult)}
                 /\ MessageFailed(allFilteredEmails, calls)
            ELSE IF type \notin GeneralTasks
            THEN /\ seen' = seen \cup {Verdict(a, i, "pool", FALSE, FALSE, NoResult)}
                 /\ NextMessage(
                        IF DefaultInclude
                        THEN Append(allFilteredEmails, Match(out.value, a))
                        ELSE allFilteredEmails,
                        calls)
            ELSE LET e  == out.value
                     kw == HeuristicMatch(type, e)
                     cl == AddCall(calls, "heuristic",
                                   [acct |-> a, id |-> i, matched |-> kw])
                 IN  IF ~AsksClassifier(kw)
                     THEN /\ seen' = seen \cup
                                {Verdict(a, i, "pool", FALSE, TRUE, NoResult)}
                          /\ NextMessage(Append(allFilteredEmails, Match(e, a)), cl)
                     ELSE /\ pc' = "processEmail"
                          /\ fullEmail' = [id |-> e.id, date |-> e.date]
                          /\ calls' = AddCall(cl, "classify",
                                [acct |-> a, id |-> i, task |-> TaskBackend(type)])
                          /\ UNCHANGED <<ai, pool, mi, allFilteredEmails, res,
                                         seen, acct>>
    /\ UNCHANGED <<type, requestedMax, poolSize, accounts, timer, linked>>
    /\ route = "filter"
    /\ UNCHANGED <<route, request, singleVars>>

\* Lines 350-378: the classifier answers, the task's predicate decides.
ProcessEmailReturn ==
    /\ pc = "processEmail"
    /\ \E out \in ClassifierOutcomes(TaskBackend(type)) :
        LET a == accounts[ai].id
            i == fullEmail.id
        IN  IF out.threw \/ ~HasField(out.value, "result")
            THEN /\ seen' = seen \cup {Verdict(a, i, "pool", TRUE, FALSE, NoResult)}
                 /\ MessageFailed(allFilteredEmails, calls)
            ELSE LET r == out.value.result
                 IN  /\ seen' = seen \cup {Verdict(a, i, "pool", FALSE, FALSE, r)}
                     /\ NextMessage(
                            IF SemanticInclude(type, r)
                            THEN Append(allFilteredEmails, Match(fullEmail, a))
                            ELSE allFilteredEmails,
                            calls)
    /\ UNCHANGED <<type, requestedMax, poolSize, accounts, timer, linked>>
    /\ route = "filter"
    /\ UNCHANGED <<route, request, singleVars>>

\* Lines 71-78: the timer fires.
Timeout ==
    /\ timer = "armed"
    /\ timer' = "fired"
    /\ res' = TimerSend(res)
    /\ UNCHANGED <<pc, pool, mi, fullEmail, calls, route, request>>
    /\ UNCHANGED <<filterVars, singleVars>>

\* Line 80: the response's 'finish' event clears the timer (clearTimeout
\* of a timer that has fired changes nothing).
ResFinish ==
    /\ HeadersSent(res)
    /\ timer = "armed"
    /\ timer' = "cleared"
    /\ UNCHANGED <<pc, pool, mi, fullEmail, res, calls, route, request>>
    /\ UNCHANGED <<filterVars, singleVars>>

Next ==
    \/ FilterArrives
    \/ Request
    \/ GetAccountsReturn
    \/ GetTokensReturn
    \/ GetCategorizedReturn
    \/ FallbackReturn
    \/ GetEmailsReturn
    \/ GetEmailByIdReturn
    \/ ProcessEmailReturn
    \/ Timeout
    \/ ResFinish

Spec == Init /\ [][Next]_vars

\* =================================================================
\* The requests under /api/emails/:accountId/..  POST ../smart-filter is
\* served by the handler of lines 612-670.  GET ../insights is served by the
\* handler of lines 522-537: the route /api/emails/:accountId/:emailId is
\* registered before the route of line 673 and matches the path with
\* emailId = "insights"; its handler answers and never calls next(), so the
\* handler of lines 673-760 is not entered.  Both requests run behind the
\* same timeout middleware (their budget is the short one).
\* =================================================================
SingleRequests ==
    {[method |-> "POST", path |-> <<"api", "emails", "1", "smart-filter">>],
     [method |-> "GET",  path |-> <<"api", "emails", "1", "insights">>]}

\* const { filterType, maxResults = 10 } = req.body
FilterTypes == {"priority", "categorize", "filter", Undefined}

\* The task the smart-filter switch hands to chatgptService.processEmail.
SmartTask(ft) ==
    CASE ft = "priority"   -> "priority_score"
      [] ft = "categorize" -> "smart_categorize"
      [] OTHER             -> "filter_inbox"

\* ------------------------------------------ responses of the two handlers
NotFoundBody == [status |-> 404, error |-> "Gmail account not found"]
RouteErrorBody(rt) ==
    [status |-> 500,
     error |-> IF rt = "email" THEN "Failed to load email"
               ELSE "Failed to perform smart filtering"]
SmartBody(results) ==
    [status |-> 200, filteredEmails |-> results, totalProcessed |-> Len(results)]

\* catch (error) { res.status(500).json(..) }: no headersSent test.
CatchSend(r, rt) == ResJson(r, "error", RouteErrorBody(rt))

\* res.json(..) inside the try block, no headersSent test: when it throws
\* (the headers are sent), the catch block runs.
TrySend(r, rt, by, body) ==
    LET r1 == ResJson(r, by, body)
    IN  IF HeadersSent(r) THEN CatchSend(r1, rt) ELSE r1

\* ---------------------------------------------- inputs of the two handlers
\* The summaries the smart-filter list call returns.
SingleList(k) == [i \in 1..k |-> [id |-> i]]
SmartLists == {SingleList(k) : k \in 0..MaxSmartPool}
SingleListOutcomes ==
    {Throw, Ret([nextPageToken |-> "none"])}
    \cup {Ret([emails |-> l]) : l \in SmartLists}

SingleDetailOutcomes(i) == {Throw, Ret([id |-> i])}

FilterResults == {[keep |-> TRUE]}
SmartClassifierOutcomes(task) ==
    {Throw, Nothing, Ret([error |-> "quota"])}
    \cup {Ret([result |-> r]) :
            r \in CASE task = "priority_score"   -> PriorityResults
                    [] task = "smart_categorize" -> CategoryResults
                    [] OTHER                     -> FilterResults}

\* --------------------------------------------- control flow of the handlers
\* The entry pushed for a message: { email, aiAnalysis }.
Entry(email, analysis) == [email |-> email, aiAnalysis |-> analysis]
\* aiResult.result of a reply that has no result field.
NoAnalysis == [undefined |-> TRUE]
FailedAnalysis == [error |-> "Failed to process with AI"]

DroppedOnFailure(results, email) == results
\* The catch of lines 653-659: the message is kept, with an error marker.
KeptOnFailure(results, email) == Append(results, Entry(email, FailedAnalysis))

\* The handler returns, with response state r.
SingleEnd(r) ==
    /\ res' = r
    /\ pc' = "done"
    /\ UNCHANGED <<mi, fullEmail, filteredResults>>

\* Lines 662-665.
SmartRespond(results) ==
    /\ res' = TrySend(res, route, "success", SmartBody(results))
    /\ pc' = "done"
    /\ filteredResults' = results
    /\ fullEmail' = NoEmail
    /\ UNCHANGED mi

\* for (const email of emails): message `at` of the list is over.
SmartNext(list, at, results) ==
    IF at < Len(list)
    THEN /\ mi' = at + 1
         /\ pc' = "getEmailById"
         /\ filteredResults' = results
         /\ fullEmail' = NoEmail
         /\ UNCHANGED res
    ELSE SmartRespond(results)

\* ---------------------------------------------- actions of the two handlers
\* The chain reaches the route that matches the request; its handler reads
\* the parameters and awaits the credentials (lines 614-617, 524-526).
SingleRequest ==
    /\ pc = "next"
    /\ Dispatch(request) \in {"smart-filter", "email"}
    /\ route' = Dispatch(request)
    /\ IF Dispatch(request) = "smart-filter"
       THEN \E ft \in FilterTypes : filterType' = ft
       ELSE UNCHANGED filterType
    /\ pc' = "getGmailTokens"
    /\ UNCHANGED <<pool, mi, fullEmail, res, timer, request, filteredResults>>
    /\ UNCHANGED <<filterVars, calls>>

\* Lines 617-623 and 526-531.
SingleTokensReturn ==
    /\ pc = "getGmailTokens"
    /\ route \in {"smart-filter", "email"}
    /\ \E out \in TokensOutcomes :
        IF out.threw
        THEN SingleEnd(CatchSend(res, route))
        ELSE IF IsNothing(out)
        THEN SingleEnd(TrySend(res, route, "notfound", NotFoundBody))
        ELSE /\ pc' = IF route = "email" THEN "getEmailById" ELSE "listEmails"
             /\ UNCHANGED <<mi, fullEmail, res, filteredResults>>
    /\ UNCHANGED <<pool, timer, route, request, filterType>>
    /\ UNCHANGED <<filterVars, calls>>

\* Lines 623-632: the list arrives and the loop starts.
SingleListReturn ==
    /\ pc = "listEmails"
    /\ route = "smart-filter"
    /\ \E out \in SingleListOutcomes :
        IF out.threw \/ ~HasField(out.value, "emails")
        THEN /\ SingleEnd(CatchSend(res, route))
             /\ UNCHANGED pool
        ELSE /\ pool' = out.value.emails
             /\ SmartNext(out.value.emails, 0, << >>)
    /\ UNCHANGED <<timer, route, request, filterType>>
    /\ UNCHANGED <<filterVars, calls>>

\* Lines 632-646: the full message arrives (or the fetch throws).
SingleDetailReturn ==
    /\ pc = "getEmailById"
    /\ route = "smart-filter"
    /\ \E out \in SingleDetailOutcomes(pool[mi].id) :
        IF out.threw
        THEN SmartNext(pool, mi, KeptOnFailure(filteredResults, pool[mi]))
        ELSE /\ pc' = "processEmail"
             /\ fullEmail' = out.value
             /\ UNCHANGED <<mi, res, filteredResults>>
    /\ UNCHANGED <<pool, timer, route, request, filterType>>
    /\ UNCHANGED <<filterVars, calls>>

\* Lines 635-660: the classifier answers the smart-filter.
SmartClassifyReturn ==
    /\ pc = "processEmail"
    /\ route = "smart-filter"
    /\ \E out \in SmartClassifierOutcomes(SmartTask(filterType)) :
        IF out.threw \/ IsNothing(out)
        THEN SmartNext(pool, mi, KeptOnFailure(filteredResults, pool[mi]))
        ELSE SmartNext(pool, mi,
                Append(filteredResults,
                       Entry(pool[mi],
                             IF HasField(out.value, "result")
                             THEN out.value.result ELSE NoAnalysis)))
    /\ UNCHANGED <<pool, timer, route, request, filterType>>
    /\ UNCHANGED <<filterVars, calls>>

\* Lines 531-536: getEmailById(tokens, emailId) returns and the message is
\* the answer, or it throws and the catch block answers.
EmailReturn ==
    /\ pc = "getEmailById"
    /\ route = "email"
    /\ \E out \in SingleDetailOutcomes(request.path[4]) :
        IF out.threw
        THEN SingleEnd(CatchSend(res, route))
        ELSE /\ res' = TrySend(res, route, "success",
                                [status |-> 200, message |-> out.value])
             /\ pc' = "done"
             /\ fullEmail' = out.value
             /\ UNCHANGED <<mi, filteredResults>>
    /\ UNCHANGED <<pool, timer, route, request, filterType>>
    /\ UNCHANGED <<filterVars, calls>>

SingleArrives == Arrive(SingleRequests)

SingleNext ==
    \/ SingleArrives
    \/ SingleRequest
    \/ SingleTokensReturn
    \/ SingleListReturn
    \/ SingleDetailReturn
    \/ SmartClassifyReturn
    \/ EmailReturn
    \/ Timeout
    \/ ResFinish

SingleSpec == Init /\ [][SingleNext]_vars

\* =================================================================
\* Properties
\* =================================================================
Done == pc = "done"
Key(a, i) == <<a, i>>
\* The matches collected so far, as (account, message) pairs.
MatchKeys == {Key(allFilteredEmails[k].accountId, allFilteredEmails[k].email.id) :
                k \in DOMAIN allFilteredEmails}
LinkedIds == {accounts[k].id : k \in DOMAIN accounts}
Attempts(by) == {k \in DOMAIN res.attempts : res.attempts[k].by = by}
\* The handler's final response went out: its body.
Answered == Attempts("success") # {} /\ res.sent # << >>
            /\ res.sent[1].status = 200
Results == res.sent[1].filteredEmails
DateOf(m) == DateParse(m.email.date)
AllDatesValid == \A k \in DOMAIN allFilteredEmails : ~IsNaN(DateOf(allFilteredEmails[k]))

\* The predicate the specification states for each general task, on a
\* classifier result.
Satisfies(t, r) ==
    CASE t = "urgent" ->
            (IF "priority_score" \in DOMAIN r THEN r.priority_score ELSE 5) >= 8
      [] t = "leads" ->
            /\ "primary_category" \in DOMAIN r /\ r.primary_category = "work"
            /\ "sub_category" \in DOMAIN r /\ r.sub_category = "project"
      [] t = "social" ->
            /\ "primary_category" \in DOMAIN r
            /\ r.primary_category \in {"social", "personal"}
      [] OTHER -> FALSE
\* A message that was considered should, by the specification, be a match.
ShouldMatch(s) ==
    /\ ~s.threw
    /\ \/ s.heuristic
       \/ s.result # NoResult /\ Satisfies(type, s.result)

\* C1: the classifier is called for a message only after its full content
\* was fetched and the task's keyword test was run on it and did not match;
\* a message the keyword test matches is a match without any classifier call.
C1_HeuristicBeforeClassifier ==
    /\ \A c \in calls.classify :
        /\ type \in GeneralTasks
        /\ c.task = TaskBackend(type)
        /\ [acct |-> c.acct, id |-> c.id] \in calls.detail
        /\ [acct |-> c.acct, id |-> c.id, matched |-> FALSE] \in calls.heuristic
    /\ \A h \in calls.heuristic :
        h.matched =>
            /\ Key(h.acct, h.id) \in MatchKeys
            /\ \A c \in calls.classify : ~(c.acct = h.acct /\ c.id = h.id)
C1_Witness ==
    /\ Done
    /\ \E h \in calls.heuristic : h.matched
    /\ \E c \in calls.classify : Key(c.acct, c.id) \in MatchKeys

\* What account b contributes when it is the only account processed.
AloneKeys(b) ==
    LET mine(src) == {s \in seen : s.acct = b /\ s.src = src}
        keys(S)   == {Key(s.acct, s.id) : s \in {x \in S : ShouldMatch(x)}}
    IN  IF type = "financial"
        THEN IF keys(mine("bucket")) # {} THEN keys(mine("bucket"))
             ELSE keys(mine("fallback"))
        ELSE keys(mine("pool"))

\* C2: when credential resolution or the list call fails for an account, it
\* contributes nothing, the request does not fail, and when a single
\* account is processed without failure the matches are exactly those it
\* contributes alone (for the general tasks: the matches are the union of
\* what the accounts processed without failure contribute alone).
C2_AccountFailureIsolated ==
    (Done /\ linked = "some") =>
        /\ \A a \in LinkedIds : acct[a].status \in {"ok", "failed"}
        /\ \A a \in LinkedIds :
            acct[a].status = "failed" =>
                \A k \in DOMAIN allFilteredEmails : allFilteredEmails[k].accountId # a
        /\ \A b \in LinkedIds :
            (/\ acct[b].status = "ok"
             /\ \A a \in LinkedIds \ {b} : acct[a].status = "failed")
                => MatchKeys = AloneKeys(b)
        /\ type # "financial" =>
            MatchKeys = UNION {AloneKeys(b) :
                                b \in {x \in LinkedIds : acct[x].status = "ok"}}
        /\ Attempts("error") = {}
        /\ \A k \in DOMAIN res.sent : res.sent[k].status # 500
C2_Witness ==
    /\ Done
    /\ Len(accounts) = 2
    /\ acct[1].status = "failed"
    /\ acct[2].status = "ok"
    /\ MatchKeys # {}
    /\ Answered

\* C3: for the general tasks, a message whose detail fetch or classifier
\* call throws is not among the matches, and every other message of the
\* pool is still fetched, classified when the keyword test does not match,
\* and among the matches when it should be.
C3_MessageFailureIsolated ==
    (Done /\ type \in GeneralTasks) =>
        /\ \A s \in seen : s.threw => Key(s.acct, s.id) \notin MatchKeys
        /\ \A a \in LinkedIds :
            acct[a].status = "ok" =>
                \A i \in 1..acct[a].listed :
                    /\ [acct |-> a, id |-> i] \in calls.detail
                    /\ \E s \in seen :
                        /\ s.acct = a /\ s.id = i
                        /\ (s.threw \/ s.heuristic
                            \/ \E c \in calls.classify : c.acct = a /\ c.id = i)
                        /\ ShouldMatch(s) => Key(a, i) \in MatchKeys
C3_Witness ==
    /\ Done
    /\ type \in GeneralTasks
    /\ \E s \in seen, n \in seen :
        /\ s.acct = n.acct
        /\ s.id < n.id
        /\ s.threw
        /\ n.result # NoResult
        /\ Key(n.acct, n.id) \in MatchKeys

\* C4: when all matches have valid dates and there are more of them than
\* the requested count (a count of zero or more), the results are that many
\* matches and none of the matches left out is more recent than a returned one.
C4_TruncateAfterGlobalSort ==
    (/\ Answered
     /\ AllDatesValid
     /\ ~IsNaN(requestedMax)
     /\ Geq(requestedMax, Num(0))
     /\ ~Geq(requestedMax, Num(Len(allFilteredEmails)))) =>
        /\ Len(Results) = requestedMax[1]
        /\ \A k \in DOMAIN Results : Results[k] = allFilteredEmails[k]
        /\ \A k \in DOMAIN Results :
            \A j \in DOMAIN allFilteredEmails :
                j > Len(Results) =>
                    DateOf(Results[k])[1] >= DateOf(allFilteredEmails[j])[1]
C4_Witness ==
    /\ Answered
    /\ AllDatesValid
    /\ type = "financial"
    /\ Len(allFilteredEmails) = 3
    /\ Len(Results) = 2
    /\ Results[1].accountId = 2
    /\ allFilteredEmails[3].accountId = 1
    /\ DateOf(Results[2])[1] > DateOf(allFilteredEmails[3])[1]

\* The order in which two matches were collected: account order, then
\* pool order.
Position(a) == CHOOSE k \in DOMAIN accounts : accounts[k].id = a
CollectedBefore(m, n) ==
    \/ Position(m.accountId) < Position(n.accountId)
    \/ m.accountId = n.accountId /\ m.email.id < n.email.id

\* C5: the results are ordered by date, most recent first, and matches of
\* equal date keep the order in which they were collected.
C5_SortedByDateDescending ==
    Answered =>
        \A i, j \in DOMAIN Results :
            (i < j /\ ~IsNaN(DateOf(Results[i])) /\ ~IsNaN(DateOf(Results[j]))) =>
                /\ DateOf(Results[i])[1] >= DateOf(Results[j])[1]
                /\ DateOf(Results[i]) = DateOf(Results[j])
                    => CollectedBefore(Results[i], Results[j])

\* C6: whatever maxResults parses to, the results are at most that many
\* (an empty result list is within any count).
C6_ResultsWithinRequestedMax ==
    Answered =>
        \/ Results = << >>
        \/ ~IsNaN(requestedMax) /\ Geq(requestedMax, Num(Len(Results)))

\* C7: every success response carries totalFound, the number of matches
\* collected before truncation, which is at least the number of results.
C7_TotalFoundReported ==
    \A k \in DOMAIN res.sent :
        res.sent[k].status = 200 =>
            /\ "totalFound" \in DOMAIN res.sent[k]
            /\ res.sent[k].totalFound = Len(allFilteredEmails)
            /\ res.sent[k].totalFound >= Len(res.sent[k].filteredEmails)

\* C8: at most one response is sent; the timer never calls res.json once a
\* response is out, the handler calls neither its final success response nor
\* its 500 response once a response is out, and once the finish event has
\* cleared the timer the response that is out is not the 408.
C8_AtMostOneResponse ==
    /\ Len(res.sent) <= 1
    /\ \A k \in DOMAIN res.attempts :
        res.attempts[k].by \in {"timer", "success", "error"}
            => ~res.attempts[k].threw
    /\ timer = "cleared" => (res.sent # << >> /\ res.sent[1].status # 408)
    /\ timer = "fired" => res.sent # << >>
C8_Witness ==
    /\ Done
    /\ linked = "some"
    /\ timer = "fired"
    /\ res.sent = <<TimeoutBody>>
    /\ allFilteredEmails # << >>

\* C9: with zero linked accounts the handler answers 200 with an empty list
\* (unless the timer answered first), never 500, and no credential,
\* mail-fetch or classifier call is made.
C9_NoAccountsEmptySuccess ==
    (Done /\ linked \in {"zero", "null"}) =>
        /\ calls.tokens = {} /\ calls.list = {}
        /\ calls.detail = {} /\ calls.classify = {}
        /\ Attempts("error") = {}
        /\ \/ res.sent = <<EmptyBody>>
           \/ res.sent = <<TimeoutBody>> /\ timer = "fired"
C9_Witness ==
    /\ Done
    /\ linked = "zero"
    /\ res.sent = <<EmptyBody>>
    /\ timer = "cleared"

\* C10: for the general tasks a message whose fetch and classification do
\* not throw is a match if and only if the keyword test matches or the
\* classifier result satisfies the task's predicate; a result without a
\* priority score never makes an urgent match.
C10_MatchIffHeuristicOrPredicate ==
    type \in GeneralTasks =>
        \A s \in seen :
            /\ ~s.threw =>
                (Key(s.acct, s.id) \in MatchKeys
                    <=> (s.heuristic \/ Satisfies(type, s.result)))
            /\ (/\ type = "urgent"
                /\ s.result # NoResult
                /\ "priority_score" \notin DOMAIN s.result)
                    => Key(s.acct, s.id) \notin MatchKeys
C10_Witness ==
    /\ Done
    /\ type = "urgent"
    /\ \E s \in seen :
        /\ s.result # NoResult /\ "priority_score" \notin DOMAIN s.result
        /\ Key(s.acct, s.id) \notin MatchKeys
    /\ \E s \in seen :
        /\ s.result # NoResult /\ "priority_score" \in DOMAIN s.result
        /\ Key(s.acct, s.id) \in MatchKeys

\* C11: in the sorted collector a match whose date does not parse comes after
\* every match whose date parses, the matches whose dates parse are in
\* date-descending order, and the sort does not fail the request.
C11_InvalidDatesSortLast ==
    Answered =>
        /\ \A i, j \in DOMAIN allFilteredEmails :
            i < j =>
                /\ IsNaN(DateOf(allFilteredEmails[i]))
                    => IsNaN(DateOf(allFilteredEmails[j]))
                /\ (/\ ~IsNaN(DateOf(allFilteredEmails[i]))
                    /\ ~IsNaN(DateOf(allFilteredEmails[j])))
                    => DateOf(allFilteredEmails[i])[1] >= DateOf(allFilteredEmails[j])[1]
        /\ Attempts("error") = {}

\* The bucket messages of account a that pass the financial keyword test.
BucketMatches(a) ==
    {s \in seen : s.acct = a /\ s.src = "bucket" /\ s.heuristic}
\* The fallback scan's list call was issued for account a.
FallbackCalled(a) ==
    \E c \in calls.list : c.acct = a /\ c.op = "getEmails"

\* C12: for the financial task, the fallback scan runs for an account if and
\* only if none of that account's bucket messages passes the keyword test,
\* whatever the earlier accounts contributed.
C12_FallbackDependsOnAccountOnly ==
    (Done /\ type = "financial") =>
        \A a \in LinkedIds :
            acct[a].status = "ok" =>
                (FallbackCalled(a) <=> BucketMatches(a) = {})

\* C13: every list call asks for a pool of at least max(desiredCount, 100).
C13_PoolSizeAtLeastFloor ==
    ~IsNaN(requestedMax) =>
        \A c \in calls.list :
            /\ ~IsNaN(c.size)
            /\ Geq(c.size, requestedMax)
            /\ Geq(c.size, Num(100))

\* C15: once the 408 timeout response is out, the handler issues no further
\* credential, mail-fetch or classifier call.
C15_NoCallsAfterTimeout ==
    [][res.sent = <<TimeoutBody>> => calls' = calls]_vars

\* C16: the 500 response is sent, or attempted, only when the account-listing
\* call threw before any account was processed; no failure of credential
\* resolution, list call, detail fetch or classifier call leads to it.
C16_ErrorOnlyOutsideAccountLoop ==
    (Attempts("error") # {} \/ \E k \in DOMAIN res.sent : res.sent[k].status = 500)
        => /\ linked = "threw"
           /\ calls.tokens = {} /\ calls.list = {}
           /\ calls.detail = {} /\ calls.classify = {}
C16_Witness ==
    /\ Done
    /\ Answered
    /\ \E a \in LinkedIds : acct[a].status = "failed"
    /\ \E s \in seen : s.threw
    /\ \A k \in DOMAIN res.sent : res.sent[k].status = 200

\* The success body of a request that found nothing.
NothingFound == [status |-> 200, filteredEmails |-> << >>, totalFound |-> 0]

\* C20: for a type that is none of financial, urgent, leads, social (a
\* missing type included) and a user with at least one account, no classifier
\* call is made, no 500 is attempted, the answer is a success with no results
\* and totalFound 0 (unless the timer answered first), and still every
\* account processed without failure had its list call and one detail fetch
\* per listed message.
C20_UnknownTypeEmptySuccess ==
    (Done /\ linked = "some" /\ type \notin GeneralTasks \cup {"financial"}) =>
        /\ calls.classify = {}
        /\ calls.heuristic = {}
        /\ Attempts("error") = {}
        /\ \/ res.sent = <<NothingFound>>
           \/ res.sent = <<TimeoutBody>> /\ timer = "fired"
        /\ \A a \in LinkedIds :
            acct[a].status = "ok" =>
                /\ [acct |-> a, op |-> "getEmails", size |-> poolSize] \in calls.list
                /\ \A i \in 1..acct[a].listed :
                    [acct |-> a, id |-> i] \in calls.detail
C20_Witness ==
    /\ Done
    /\ linked = "some"
    /\ type = Undefined
    /\ \E a \in LinkedIds : acct[a].status = "ok" /\ acct[a].listed = 2
    /\ Cardinality(calls.detail) = 2
    /\ res.sent = <<NothingFound>>

\* The filter request under fair scheduling of the timer callback: an armed
\* timer eventually fires unless the finish event clears it first.  The
\* handler's resumptions get no fairness: an external call may never return.
LiveSpec == Spec /\ WF_vars(Timeout)

\* C18: every request eventually has exactly one response, also when an
\* external call never returns.
C18_EventuallyOneResponse ==
    /\ (pc # "idle") ~> (Len(res.sent) = 1)
    /\ [](Len(res.sent) <= 1)
C18_Witness ==
    /\ pc = "getEmailById"
    /\ timer = "fired"
    /\ res.sent = <<TimeoutBody>>

\* The request for the insights of an account.
InsightsRequest == [method |-> "GET", path |-> <<"api", "emails", "1", "insights">>]

\* C14: for the smart-filter and insights requests, once the 408 timeout
\* response is out the handler makes no attempt to send a completion or an
\* error response (an attempt made after a response is out is one that throws).
C14_SingleRoutesNoSendAfterTimeout ==
    request \in SingleRequests =>
        \A k \in DOMAIN res.attempts :
            res.attempts[k].by \in {"success", "notfound", "error"}
                => ~res.attempts[k].threw

\* The sum of the counts of a histogram (a sequence of key and count).
RECURSIVE CountSum(_)
CountSum(obj) ==
    IF obj = << >> THEN 0 ELSE Head(obj).count + CountSum(Tail(obj))
\* The count a histogram holds for a key, 0 when it holds none.
CountOf(obj, key) ==
    CountSum(SelectSeq(obj, LAMBDA e : e.key = key))
\* The answer is an insights object whose priority buckets are high, medium
\* and low, whose bucket counts and category counts have the same sum, and
\* whose urgent count is the count of the high bucket.
IsInsightsAnswer(body) ==
    /\ {"priorityDistribution", "categories", "urgentEmails"} \subseteq DOMAIN body
    /\ \A k \in DOMAIN body.priorityDistribution :
        body.priorityDistribution[k].key \in {"high", "medium", "low"}
    /\ CountSum(body.priorityDistribution) = CountSum(body.categories)
    /\ CountSum(body.priorityDistribution) <= 10
    /\ body.urgentEmails = CountOf(body.priorityDistribution, "high")

\* C17: every successful answer to the insights request is an insights
\* object in which each analysed message (at most 10) is counted in exactly
\* one priority bucket and one category, so that the bucket counts and the
\* category counts both sum to the number of analysed messages, and in which
\* the urgent count is the count of the high bucket.
C17_PriorityBucketsPartition ==
    request = InsightsRequest =>
        \A k \in DOMAIN res.sent :
            res.sent[k].status = 200 => IsInsightsAnswer(res.sent[k])

\* C19: no message is analysed on behalf of an insights request, so, unless
\* it ends with the 404 for credentials not found, its handler never calls
\* res.json with a result: it ends in its catch block, and the answer is the
\* 500 'Failed to generate email insights' (or the 408 when the timer answered
\* first).
C19_NoAnalysisIsError ==
    (Done /\ request = InsightsRequest /\ Attempts("notfound") = {}) =>
        /\ Attempts("success") = {}
        /\ Attempts("error") # {}
        /\ \/ res.sent = <<[status |-> 500,
                             error |-> "Failed to generate email insights"]>>
           \/ res.sent = <<TimeoutBody>> /\ timer = "fired"

\* The entries collected so far are those of the first n listed messages, in
\* list order.
EntriesFollowList(results, list, n) ==
    /\ Len(results) = n
    /\ \A k \in 1..n : results[k].email = list[k]
\* The smart-filter response that is out, if any.
SmartSent ==
    {res.sent[k] :
        k \in {j \in DOMAIN res.sent : "totalProcessed" \in DOMAIN res.sent[j]}}

\* C21: once the smart-filter has its list, it collects exactly one entry per
\* listed message, in list order: while message mi is in work the entries are
\* those of the messages before it; a message that is over, failed or not,
\* adds one entry for itself (the error marker when its detail fetch threw)
\* and the loop goes on to the next message; the handler then calls res.json
\* with one entry per listed message, and a smart-filter response carries
\* them with totalProcessed equal to the number of listed messages.
C21_OneEntryPerCandidate ==
    /\ [](route = "smart-filter" /\ pc \in {"getEmailById", "processEmail"} =>
            /\ mi \in 1..Len(pool)
            /\ EntriesFollowList(filteredResults, pool, mi - 1))
    /\ [](route = "smart-filter" /\ Done /\ Attempts("success") # {} =>
            EntriesFollowList(filteredResults, pool, Len(pool)))
    /\ [](\A body \in SmartSent :
            /\ res.sent = <<body>>
            /\ body.filteredEmails = filteredResults
            /\ body.totalProcessed = Len(pool)
            /\ EntriesFollowList(body.filteredEmails, pool, Len(pool)))
    /\ [][route = "smart-filter" /\ pc \in {"getEmailById", "processEmail"}
            /\ (mi' # mi \/ pc' = "done") =>
            /\ Len(filteredResults') = Len(filteredResults) + 1
            /\ SubSeq(filteredResults', 1, Len(filteredResults)) = filteredResults
            /\ filteredResults'[mi].email = pool[mi]
            /\ pc = "getEmailById" =>
                filteredResults'[mi].aiAnalysis = [error |-> "Failed to process with AI"]
            /\ IF mi < Len(pool)
               THEN mi' = mi + 1 /\ pc' = "getEmailById"
               ELSE pc' = "done" /\ Len(res'.attempts) > Len(res.attempts)]_vars
C21_Witness ==
    /\ Done
    /\ route = "smart-filter"
    /\ Len(pool) = 2
    /\ Len(filteredResults) = 2
    /\ filteredResults[1].aiAnalysis = [error |-> "Failed to process with AI"]
    /\ "keep" \in DOMAIN filteredResults[2].aiAnalysis
    /\ SmartSent # {}
    /\ res.sent[1].totalProcessed = 2
====
